---- MODULE Spec2Model ----
(***************************************************************************)
(* The BGP capability decoder (serde/deserializer/capabilities.rs) and the *)
(* BGP UPDATE body decoder (serde/deserializer/update.rs) of netgauze-bgp- *)
(* pkt, as a state machine over one immutable input buffer.                *)
(*                                                                         *)
(* A Span is a window [off, end) on the input: off is the absolute offset  *)
(* of its first byte in the original buffer, and slicing keeps it.         *)
(* An IResult is [kind |-> "Ok", rest, value], [kind |-> "Error", span,    *)
(* error] or [kind |-> "Incomplete", needed].  An error value is the chain *)
(* of its enum tags, outermost first, and the arguments of the innermost.  *)
(***************************************************************************)
EXTENDS Integers, Sequences, FiniteSets, TLC

VARIABLES
    input,                \* the original buffer handed to the decoder
    pdu,                  \* "BGPCapability" or "BGPUpdateMessage"
    asn4,                 \* BGPUpdateMessage::from_wire's flag
    prefix_decoder,       \* the IPv4 prefix routine the record decoders call
    pc,                   \* position in from_wire
    buf,                  \* from_wire's cursor `buf`
    parsed,               \* BGPCapability::from_wire's `parsed`
    withdrawn_buf,        \* the withdrawn routes slice
    path_attributes_buf,  \* the path attributes slice
    loop_buf,             \* cursor of the running repeat-until-empty loop
    ret,                  \* accumulator of the running repeat-until-empty loop
    nlri_buf,             \* NetworkLayerReachabilityInformation::from_wire's `buf`
    nets,                 \* NetworkLayerReachabilityInformation::from_wire's `nets`
    withdrawn_routes,
    path_attributes,
    inner,                \* the last result of the inner scope's from_wire
    result,               \* what from_wire returns
    outer                 \* what the enclosing scope makes of it

vars == <<input, pdu, asn4, prefix_decoder, pc, buf, parsed, withdrawn_buf,
          path_attributes_buf, loop_buf, ret, nlri_buf, nets, withdrawn_routes,
          path_attributes, inner, result, outer>>

----------------------------------------------------------------------------
(* Bounds of the model *)

MaxLen == 7          \* longest UPDATE body
MaxPayload == 4      \* longest capability payload after the length byte

UpdateBytes == {0, 1, 2, 33}      \* byte values of UPDATE bodies
LengthBytes == {0, 3, 4}        \* values of a capability's length byte
PayloadBytes == {0, 66}         \* byte values of a capability's payload
Byte == 0..255

SeqsUpTo(S, n) == UNION {[1..k -> S] : k \in 0..n}

----------------------------------------------------------------------------
(* Spans and results *)

Span(o, e) == [off |-> o, end |-> e]
is_empty(b) == b.off = b.end
input_len(b) == b.end - b.off
fragment(b) == SubSeq(input, b.off + 1, b.end)
advance(b, n) == Span(b.off + n, b.end)
take(b, n) == Span(b.off, b.off + n)

Ok(rest, value) == [kind |-> "Ok", rest |-> rest, value |-> value]
Error(span, error) == [kind |-> "Error", span |-> span, error |-> error]
Incomplete(needed) == [kind |-> "Incomplete", needed |-> needed]
None == [kind |-> "None"]

ErrorValue(tags, args) == [tags |-> tags, args |-> args]
Wrap(tag, e) == ErrorValue(<<tag>> \o e.tags, e.args)

\* ParseError::from_error_kind of every scope: Scope::NomError(kind)
from_error_kind(span, kind) == Error(span, ErrorValue(<<"NomError", kind>>, <<>>))

\* FromExternalError::from_external_error: the error located at the given input
from_external_error(span, error) == Error(span, error)

----------------------------------------------------------------------------
(* Primitive readers *)

be_u8(b) ==
    IF input_len(b) < 1 THEN from_error_kind(b, "Eof")
    ELSE Ok(advance(b, 1), input[b.off + 1])

be_u16(b) ==
    IF input_len(b) < 2 THEN from_error_kind(b, "Eof")
    ELSE Ok(advance(b, 2), input[b.off + 1] * 256 + input[b.off + 2])

\* four bytes never exceed 32 bits; PayloadBytes keeps the value below 2^31
be_u32(b) ==
    IF input_len(b) < 4 THEN from_error_kind(b, "Eof")
    ELSE Ok(advance(b, 4),
            input[b.off + 1] * 16777216 + input[b.off + 2] * 65536
            + input[b.off + 3] * 256 + input[b.off + 4])

\* nom::multi::length_data(be_u16): the slice and the cursor after it
length_data_be_u16(b) ==
    LET r == be_u16(b) IN
    IF r.kind # "Ok" THEN r
    ELSE IF r.value > input_len(r.rest)
         THEN Incomplete(r.value - input_len(r.rest))
         ELSE Ok(advance(r.rest, r.value), take(r.rest, r.value))

\* nom::multi::length_value(be_u8, many0(be_u8)): the bytes of the slice
length_value_be_u8(b) ==
    LET r == be_u8(b) IN
    IF r.kind # "Ok" THEN r
    ELSE IF r.value > input_len(r.rest)
         THEN Incomplete(r.value - input_len(r.rest))
         ELSE Ok(advance(r.rest, r.value), fragment(take(r.rest, r.value)))

----------------------------------------------------------------------------
(* Capability codes (iana::BGPCapabilityCode) *)

BGPCapabilityCode ==
    { <<1, "MultiProtocolExtensions">>,
      <<2, "RouteRefreshCapability">>,
      <<3, "OutboundRouteFilteringCapability">>,
      <<5, "ExtendedNextHopEncoding">>,
      <<6, "BGPExtendedMessage">>,
      <<7, "BGPSecCapability">>,
      <<8, "MultipleLabelsCapability">>,
      <<9, "BGPRole">>,
      <<64, "GracefulRestartCapability">>,
      <<65, "FourOctetAS">>,
      <<67, "SupportForDynamicCapability">>,
      <<68, "MultiSessionBGPCapability">>,
      <<69, "ADDPathCapability">>,
      <<70, "EnhancedRouteRefresh">>,
      <<71, "LongLivedGracefulRestartLLGRCapability">>,
      <<72, "RoutingPolicyDistribution">>,
      <<73, "FQDN">>,
      <<239, "Experimental239">>,
      <<240, "Experimental240">>,
      <<241, "Experimental241">>,
      <<242, "Experimental242">>,
      <<243, "Experimental243">>,
      <<244, "Experimental244">>,
      <<245, "Experimental245">>,
      <<246, "Experimental246">>,
      <<247, "Experimental247">>,
      <<248, "Experimental248">>,
      <<249, "Experimental249">>,
      <<250, "Experimental250">>,
      <<251, "Experimental251">>,
      <<252, "Experimental252">>,
      <<253, "Experimental253">>,
      <<254, "Experimental254">> }

IsDefinedCode(b) == \E p \in BGPCapabilityCode : p[1] = b

\* BGPCapabilityCode::try_from(u8), where the byte is mapped
BGPCapabilityCode_try_from(b) == (CHOOSE p \in BGPCapabilityCode : p[1] = b)[2]

\* u8::from(BGPCapabilityCode), the `code.into()` of the generic arms
BGPCapabilityCode_into(code) == (CHOOSE p \in BGPCapabilityCode : p[2] = code)[1]

\* the discriminant of an ExperimentalCapabilityCode
ExperimentalCapabilityCode_into(code) ==
    CASE code = "Experimental239" -> 239
      [] code = "Experimental240" -> 240
      [] code = "Experimental241" -> 241
      [] code = "Experimental242" -> 242
      [] code = "Experimental243" -> 243
      [] code = "Experimental244" -> 244
      [] code = "Experimental245" -> 245
      [] code = "Experimental246" -> 246
      [] code = "Experimental247" -> 247
      [] code = "Experimental248" -> 248
      [] code = "Experimental249" -> 249
      [] code = "Experimental250" -> 250
      [] code = "Experimental251" -> 251
      [] code = "Experimental252" -> 252
      [] code = "Experimental253" -> 253
      [] code = "Experimental254" -> 254

ROUTE_REFRESH_CAPABILITY_LENGTH == 0
ENHANCED_ROUTE_REFRESH_CAPABILITY_LENGTH == 0
EXTENDED_MESSAGE_CAPABILITY_LENGTH == 0
FOUR_OCTET_AS_CAPABILITY_LENGTH == 4

----------------------------------------------------------------------------
(* capabilities.rs *)

\* map_res(be_u8, BGPCapabilityCode::try_from): an error of the mapping is
\* located at the input of be_u8, the code byte itself
parse_capability_code(b) ==
    LET r == be_u8(b) IN
    IF r.kind # "Ok" THEN r
    ELSE IF IsDefinedCode(r.value)
         THEN Ok(r.rest, BGPCapabilityCode_try_from(r.value))
         ELSE from_external_error(b,
                  ErrorValue(<<"UndefinedCapabilityCode", "UndefinedBGPCapabilityCode">>,
                             <<r.value>>))

parse_experimental_capability(code, b) ==
    LET r == length_value_be_u8(b) IN
    IF r.kind # "Ok" THEN r
    ELSE Ok(r.rest, [variant |-> "Experimental", code |-> code, value |-> r.value])

parse_unrecognized_capability(code, b) ==
    LET r == length_value_be_u8(b) IN
    IF r.kind # "Ok" THEN r
    ELSE Ok(r.rest, [variant |-> "Unrecognized", code |-> code, value |-> r.value])

\* err is the tag chain of the error the closure builds around the length
check_capability_length(b, expected, err) ==
    LET r == be_u8(b) IN
    IF r.kind # "Ok" THEN r
    ELSE IF r.value # expected
         THEN from_external_error(b, ErrorValue(err, <<r.value>>))
         ELSE Ok(r.rest, r.value)

parse_route_refresh_capability(b) ==
    LET r == check_capability_length(b, ROUTE_REFRESH_CAPABILITY_LENGTH,
                                     <<"InvalidRouteRefreshLength">>) IN
    IF r.kind # "Ok" THEN r ELSE Ok(r.rest, [variant |-> "RouteRefresh"])

parse_enhanced_route_refresh_capability(b) ==
    LET r == check_capability_length(b, ENHANCED_ROUTE_REFRESH_CAPABILITY_LENGTH,
                                     <<"InvalidEnhancedRouteRefreshLength">>) IN
    IF r.kind # "Ok" THEN r ELSE Ok(r.rest, [variant |-> "EnhancedRouteRefresh"])

\* the arm built with the error of another kind
parse_extended_message_capability_other_error(b) ==
    LET r == check_capability_length(b, EXTENDED_MESSAGE_CAPABILITY_LENGTH,
                                     <<"InvalidRouteRefreshLength">>) IN
    IF r.kind # "Ok" THEN r ELSE Ok(r.rest, [variant |-> "ExtendedMessage"])

parse_extended_message_capability(b) ==
    LET r == check_capability_length(b, EXTENDED_MESSAGE_CAPABILITY_LENGTH,
                                     <<"InvalidExtendedMessageLength">>) IN
    IF r.kind # "Ok" THEN r ELSE Ok(r.rest, [variant |-> "ExtendedMessage"])

\* the number read with the wrong byte order
FourOctetASCapability_from_wire_le(b) ==
    LET r == check_capability_length(b, FOUR_OCTET_AS_CAPABILITY_LENGTH,
                                     <<"InvalidLength">>) IN
    IF r.kind # "Ok" THEN r
    ELSE LET a == be_u32(r.rest) IN
         IF a.kind # "Ok" THEN a
         ELSE Ok(a.rest, [asn4 |-> input[r.rest.off + 4] * 16777216
                                   + input[r.rest.off + 3] * 65536
                                   + input[r.rest.off + 2] * 256
                                   + input[r.rest.off + 1]])

FourOctetASCapability_from_wire(b) ==
    LET r == check_capability_length(b, FOUR_OCTET_AS_CAPABILITY_LENGTH,
                                     <<"InvalidLength">>) IN
    IF r.kind # "Ok" THEN r
    ELSE LET a == be_u32(r.rest) IN
         IF a.kind # "Ok" THEN a ELSE Ok(a.rest, [asn4 |-> a.value])

\* IntoLocatedError for LocatedFourOctetASCapabilityParsingError
FourOctetAS_into_located(e) ==
    Error(e.span, Wrap("FourOctetASCapabilityError", e.error))

\* IntoLocatedError for LocatedBGPCapabilityParsingError
BGPCapability_into_located(e) ==
    Error(e.span, Wrap("CapabilityError", e.error))

\* netgauze_parse_utils::parse_into_located for FourOctetASCapability
parse_into_located_four_octet_as(r) ==
    IF r.kind = "Error" THEN FourOctetAS_into_located(r) ELSE r

\* one arm passing its neighbour's code
ExperimentalArmCode_pasted(code) ==
    IF code = "Experimental254" THEN "Experimental253" ELSE code

\* The ExperimentalCapabilityCode each Experimental arm of the match passes
ExperimentalArmCode(code) ==
    CASE code = "Experimental239" -> "Experimental239"
      [] code = "Experimental240" -> "Experimental240"
      [] code = "Experimental241" -> "Experimental241"
      [] code = "Experimental242" -> "Experimental242"
      [] code = "Experimental243" -> "Experimental243"
      [] code = "Experimental244" -> "Experimental244"
      [] code = "Experimental245" -> "Experimental245"
      [] code = "Experimental246" -> "Experimental246"
      [] code = "Experimental247" -> "Experimental247"
      [] code = "Experimental248" -> "Experimental248"
      [] code = "Experimental249" -> "Experimental249"
      [] code = "Experimental250" -> "Experimental250"
      [] code = "Experimental251" -> "Experimental251"
      [] code = "Experimental252" -> "Experimental252"
      [] code = "Experimental253" -> "Experimental253"
      [] code = "Experimental254" -> "Experimental254"

ExperimentalCodes == { p[2] : p \in { q \in BGPCapabilityCode : q[1] \in 239..254 } }

\* The arms of the match that decode a known code generically
UnrecognizedArmCodes ==
    { "MultiProtocolExtensions", "OutboundRouteFilteringCapability",
      "ExtendedNextHopEncoding", "BGPSecCapability", "MultipleLabelsCapability",
      "BGPRole", "GracefulRestartCapability", "SupportForDynamicCapability",
      "MultiSessionBGPCapability", "ADDPathCapability",
      "LongLivedGracefulRestartLLGRCapability", "RoutingPolicyDistribution", "FQDN" }

IsUndefinedCapabilityCode(r) ==
    r.kind = "Error" /\ r.error.tags[1] = "UndefinedCapabilityCode"

capVars == <<withdrawn_buf, path_attributes_buf, loop_buf, ret, nlri_buf, nets,
             withdrawn_routes, path_attributes>>

\* let parsed = map_res(be_u8, BGPCapabilityCode::try_from)(buf)
CapabilityCode ==
    /\ pdu = "BGPCapability" /\ pc = "from_wire"
    /\ parsed' = parse_capability_code(buf)
    /\ pc' = "match"
    /\ UNCHANGED <<input, pdu, asn4, prefix_decoder, buf, inner, result, outer>>
    /\ UNCHANGED capVars

\* an arm of `match parsed` returns res
ArmReturns(res) ==
    /\ result' = res
    /\ pc' = "done"
    /\ UNCHANGED <<input, pdu, asn4, prefix_decoder, buf, parsed, outer>>
    /\ UNCHANGED capVars

IsCode(code) == parsed.kind = "Ok" /\ parsed.value = code

RouteRefreshArm ==
    /\ pdu = "BGPCapability" /\ pc = "match"
    /\ IsCode("RouteRefreshCapability")
    /\ ArmReturns(parse_route_refresh_capability(parsed.rest))
    /\ UNCHANGED inner

EnhancedRouteRefreshArm ==
    /\ pdu = "BGPCapability" /\ pc = "match"
    /\ IsCode("EnhancedRouteRefresh")
    /\ ArmReturns(parse_enhanced_route_refresh_capability(parsed.rest))
    /\ UNCHANGED inner

BGPExtendedMessageArm ==
    /\ pdu = "BGPCapability" /\ pc = "match"
    /\ IsCode("BGPExtendedMessage")
    /\ ArmReturns(parse_extended_message_capability(parsed.rest))
    /\ UNCHANGED inner

FourOctetASArm ==
    /\ pdu = "BGPCapability" /\ pc = "match"
    /\ IsCode("FourOctetAS")
    /\ LET r == FourOctetASCapability_from_wire(parsed.rest)
           l == parse_into_located_four_octet_as(r) IN
       /\ inner' = r
       /\ ArmReturns(IF l.kind = "Ok"
                     THEN Ok(l.rest, [variant |-> "FourOctetAS", asn4 |-> l.value.asn4])
                     ELSE l)

ExperimentalArm ==
    /\ pdu = "BGPCapability" /\ pc = "match"
    /\ parsed.kind = "Ok" /\ parsed.value \in ExperimentalCodes
    /\ ArmReturns(parse_experimental_capability(ExperimentalArmCode(parsed.value),
                                                parsed.rest))
    /\ UNCHANGED inner

\* the generic arm checking a length of 4 for the multiprotocol extensions
UnrecognizedArm_validates ==
    /\ pdu = "BGPCapability" /\ pc = "match"
    /\ parsed.kind = "Ok" /\ parsed.value \in UnrecognizedArmCodes
    /\ LET l == check_capability_length(parsed.rest, 4, <<"InvalidLength">>) IN
       ArmReturns(IF parsed.value = "MultiProtocolExtensions" /\ l.kind # "Ok" THEN l
                  ELSE parse_unrecognized_capability(BGPCapabilityCode_into(parsed.value),
                                                     parsed.rest))
    /\ UNCHANGED inner

UnrecognizedArm ==
    /\ pdu = "BGPCapability" /\ pc = "match"
    /\ parsed.kind = "Ok" /\ parsed.value \in UnrecognizedArmCodes
    /\ ArmReturns(parse_unrecognized_capability(BGPCapabilityCode_into(parsed.value),
                                                parsed.rest))
    /\ UNCHANGED inner

\* the match without its fallback arm: the lookup's error is returned
UndefinedCapabilityCodeArm_surfaced ==
    /\ pdu = "BGPCapability" /\ pc = "match"
    /\ IsUndefinedCapabilityCode(parsed)
    /\ ArmReturns(parsed)
    /\ UNCHANGED inner

\* the fallback taking the code from the error and not reading it again
UndefinedCapabilityCodeArm_no_reread ==
    /\ pdu = "BGPCapability" /\ pc = "match"
    /\ IsUndefinedCapabilityCode(parsed)
    /\ ArmReturns(parse_unrecognized_capability(parsed.error.args[1], parsed.span))
    /\ UNCHANGED inner

\* Parse code again, since nom won't advance the buffer on map_res error
UndefinedCapabilityCodeArm ==
    /\ pdu = "BGPCapability" /\ pc = "match"
    /\ IsUndefinedCapabilityCode(parsed)
    /\ LET r == be_u8(parsed.span) IN
       ArmReturns(IF r.kind # "Ok" THEN r
                  ELSE parse_unrecognized_capability(r.value, r.rest))
    /\ UNCHANGED inner

\* Err(err) => Err(err)
ErrArm ==
    /\ pdu = "BGPCapability" /\ pc = "match"
    /\ parsed.kind # "Ok" /\ ~IsUndefinedCapabilityCode(parsed)
    /\ ArmReturns(parsed)
    /\ UNCHANGED inner

\* The BGP parameter decoder receives the capability or its error
CapabilityReturn ==
    /\ pdu = "BGPCapability" /\ pc = "done"
    /\ outer' = IF result.kind = "Error" THEN BGPCapability_into_located(result)
                ELSE result
    /\ pc' = "returned"
    /\ UNCHANGED <<input, pdu, asn4, prefix_decoder, buf, parsed, inner, result>>
    /\ UNCHANGED capVars

----------------------------------------------------------------------------
(* update.rs *)

\* The shared IPv4 prefix routine: [prefix length in bits][ceil(length / 8) bytes]
ipv4_network_from_wire(b) ==
    LET r == be_u8(b) IN
    IF r.kind # "Ok" THEN r
    ELSE IF r.value > 32
         THEN Error(b, ErrorValue(<<"InvalidIpv4PrefixLen">>, <<r.value>>))
         ELSE LET n == (r.value + 7) \div 8 IN
              IF input_len(r.rest) < n THEN from_error_kind(r.rest, "Eof")
              ELSE Ok(advance(r.rest, n),
                      [addr |-> fragment(take(r.rest, n)), prefix_len |-> r.value])

\* A record decoder that reports success without consuming a byte
zero_consumption_decoder(b) == Ok(b, [addr |-> <<>>, prefix_len |-> 0])

prefix_from_wire(b) ==
    IF prefix_decoder = "ipv4_network_from_wire" THEN ipv4_network_from_wire(b)
    ELSE zero_consumption_decoder(b)

into_located_bgp_withdraw_route_parsing_error(e) ==
    Error(e.span, Wrap("Ipv4PrefixParsingError", e.error))

into_located_nlri_parsing_error(e) ==
    Error(e.span, Wrap("Ipv4PrefixParsingError", e.error))

\* the span recomputed relative to the withdrawn routes slice
WithdrawRoute_into_located_resliced(e) ==
    Error(Span(e.span.off - withdrawn_buf.off, e.span.end - withdrawn_buf.off),
          Wrap("WithdrawRouteError", e.error))

\* IntoLocatedError for LocatedWithdrawRouteParsingError
WithdrawRoute_into_located(e) ==
    Error(e.span, Wrap("WithdrawRouteError", e.error))

\* the prefix error put in the arm of the withdrawn routes
NetworkLayerReachabilityInformation_into_located_other_arm(e) ==
    Error(e.span, Wrap("WithdrawRouteError", e.error))

\* IntoLocatedError for LocatedNetworkLayerReachabilityInformationParsingError
NetworkLayerReachabilityInformation_into_located(e) ==
    Error(e.span, Wrap("NetworkLayerReachabilityInformationError", e.error))

\* IntoLocatedError for LocatedBGPUpdateMessageParsingError
BGPUpdateMessage_into_located(e) ==
    Error(e.span, Wrap("BGPUpdateMessageParsingError", e.error))

WithdrawRoute_from_wire(b) ==
    LET r == prefix_from_wire(b) IN
    IF r.kind = "Ok" THEN Ok(r.rest, [net |-> r.value])
    ELSE IF r.kind = "Error" THEN into_located_bgp_withdraw_route_parsing_error(r)
    ELSE r

parse_nlri_ipv4(b) ==
    LET r == prefix_from_wire(b) IN
    IF r.kind = "Ok" THEN Ok(r.rest, r.value)
    ELSE IF r.kind = "Error" THEN into_located_nlri_parsing_error(r)
    ELSE r

\* netgauze_parse_utils::parse_into_located for WithdrawRoute
parse_into_located_withdraw_route(r) ==
    IF r.kind = "Error" THEN WithdrawRoute_into_located(r) ELSE r

\* netgauze_parse_utils::parse_into_located for NetworkLayerReachabilityInformation
parse_into_located_nlri(r) ==
    IF r.kind = "Error" THEN NetworkLayerReachabilityInformation_into_located(r) ELSE r

BGPUpdateMessage_new(w, p, n) ==
    [withdrawn_routes |-> w, path_attributes |-> p, nlri |-> n]

\* the loop ending at the first failed record with what it has, as many0 does
LoopFails_keeps_partial(failure) ==
    /\ result' = Ok(loop_buf, BGPUpdateMessage_new(ret, <<>>, <<>>))
    /\ ret' = ret
    /\ pc' = "done"

\* What a repeat-until-empty loop does with a record that failed: the `?`
\* returns the failure and the records decoded so far are dropped
LoopFails(failure) ==
    /\ result' = failure
    /\ ret' = <<>>
    /\ pc' = "done"

\* the length taken to count its own two bytes
LengthWithdrawn_counts_field ==
    /\ pdu = "BGPUpdateMessage" /\ pc = "from_wire"
    /\ LET r == length_data_be_u16(buf) IN
       IF r.kind = "Ok" /\ input_len(r.value) >= 2
       THEN /\ buf' = advance(r.value, input_len(r.value) - 2)
            /\ withdrawn_buf' = take(r.value, input_len(r.value) - 2)
            /\ loop_buf' = take(r.value, input_len(r.value) - 2)
            /\ pc' = "withdraw_routes"
            /\ UNCHANGED result
       ELSE IF r.kind = "Ok"
       THEN /\ buf' = r.rest
            /\ withdrawn_buf' = r.value
            /\ loop_buf' = r.value
            /\ pc' = "withdraw_routes"
            /\ UNCHANGED result
       ELSE /\ result' = r
            /\ pc' = "done"
            /\ UNCHANGED <<buf, withdrawn_buf, loop_buf>>
    /\ UNCHANGED <<input, pdu, asn4, prefix_decoder, parsed, path_attributes_buf, ret,
                   nlri_buf, nets, withdrawn_routes, path_attributes, inner, outer>>

\* the slice cut to the bytes that are there, the shortfall not reported
LengthWithdrawn_clamped ==
    /\ pdu = "BGPUpdateMessage" /\ pc = "from_wire"
    /\ LET r == be_u16(buf) IN
       IF r.kind = "Ok"
       THEN LET n == IF r.value > input_len(r.rest) THEN input_len(r.rest) ELSE r.value IN
            /\ buf' = advance(r.rest, n)
            /\ withdrawn_buf' = take(r.rest, n)
            /\ loop_buf' = take(r.rest, n)
            /\ pc' = "withdraw_routes"
            /\ UNCHANGED result
       ELSE /\ result' = r
            /\ pc' = "done"
            /\ UNCHANGED <<buf, withdrawn_buf, loop_buf>>
    /\ UNCHANGED <<input, pdu, asn4, prefix_decoder, parsed, path_attributes_buf, ret,
                   nlri_buf, nets, withdrawn_routes, path_attributes, inner, outer>>

\* let (buf, withdrawn_buf) = length_data(be_u16)(buf)?
LengthWithdrawn ==
    /\ pdu = "BGPUpdateMessage" /\ pc = "from_wire"
    /\ LET r == length_data_be_u16(buf) IN
       IF r.kind = "Ok"
       THEN /\ buf' = r.rest
            /\ withdrawn_buf' = r.value
            /\ loop_buf' = r.value
            /\ pc' = "withdraw_routes"
            /\ UNCHANGED result
       ELSE /\ result' = r
            /\ pc' = "done"
            /\ UNCHANGED <<buf, withdrawn_buf, loop_buf>>
    /\ UNCHANGED <<input, pdu, asn4, prefix_decoder, parsed, path_attributes_buf, ret,
                   nlri_buf, nets, withdrawn_routes, path_attributes, inner, outer>>

\* One iteration of parse_withdraw_routes' loop
WithdrawRoutesRecord ==
    /\ pdu = "BGPUpdateMessage" /\ pc = "withdraw_routes"
    /\ ~is_empty(loop_buf)
    /\ Len(ret) <= Len(input)
    /\ LET r == WithdrawRoute_from_wire(loop_buf) IN
       /\ inner' = r
       /\ IF r.kind = "Ok"
          THEN /\ ret' = Append(ret, r.value)
               /\ loop_buf' = r.rest
               /\ UNCHANGED <<pc, result>>
          ELSE /\ LoopFails(parse_into_located_withdraw_route(r))
               /\ UNCHANGED loop_buf
    /\ UNCHANGED <<input, pdu, asn4, prefix_decoder, buf, parsed, withdrawn_buf,
                   path_attributes_buf, nlri_buf, nets, withdrawn_routes,
                   path_attributes, outer>>

\* The withdrawn routes slice is exhausted: let (_, withdrawn_routes) = ...
WithdrawRoutesEnd ==
    /\ pdu = "BGPUpdateMessage" /\ pc = "withdraw_routes"
    /\ is_empty(loop_buf)
    /\ withdrawn_routes' = ret
    /\ ret' = <<>>
    /\ pc' = "length_path_attributes"
    /\ UNCHANGED <<input, pdu, asn4, prefix_decoder, buf, parsed, withdrawn_buf,
                   path_attributes_buf, loop_buf, nlri_buf, nets, path_attributes,
                   inner, result, outer>>

\* let (buf, path_attributes_buf) = length_data(be_u16)(buf)?
LengthPathAttributes ==
    /\ pdu = "BGPUpdateMessage" /\ pc = "length_path_attributes"
    /\ LET r == length_data_be_u16(buf) IN
       IF r.kind = "Ok"
       THEN /\ buf' = r.rest
            /\ path_attributes_buf' = r.value
            /\ pc' = "path_attributes"
            /\ UNCHANGED result
       ELSE /\ result' = r
            /\ pc' = "done"
            /\ UNCHANGED <<buf, path_attributes_buf>>
    /\ UNCHANGED <<input, pdu, asn4, prefix_decoder, parsed, withdrawn_buf, loop_buf, ret,
                   nlri_buf, nets, withdrawn_routes, path_attributes, inner, outer>>

\* The path attribute decoder takes the slice and the flag; it returns the
\* attributes of the whole slice, or an error located in the slice
PathAttributes ==
    /\ pdu = "BGPUpdateMessage" /\ pc = "path_attributes"
    /\ \/ /\ path_attributes' =
                IF is_empty(path_attributes_buf) THEN <<>>
                ELSE <<[attribute |-> fragment(path_attributes_buf), asn4 |-> asn4]>>
          /\ loop_buf' = buf
          /\ pc' = "nlri"
          /\ UNCHANGED result
       \/ /\ ~is_empty(path_attributes_buf)
          /\ \E o \in path_attributes_buf.off .. (path_attributes_buf.end - 1) :
                result' = Error(Span(o, path_attributes_buf.end),
                                ErrorValue(<<"PathAttributeError", "PathAttributeParsingError">>,
                                           <<>>))
          /\ pc' = "done"
          /\ UNCHANGED <<path_attributes, loop_buf>>
    /\ UNCHANGED <<input, pdu, asn4, prefix_decoder, buf, parsed, withdrawn_buf,
                   path_attributes_buf, ret, nlri_buf, nets, withdrawn_routes, inner, outer>>

\* parse_till_empty_into_located(buf) calls
\* NetworkLayerReachabilityInformation::from_wire on what is left
NlriFromWire ==
    /\ pdu = "BGPUpdateMessage" /\ pc = "nlri"
    /\ ~is_empty(loop_buf)
    /\ Len(ret) <= Len(input)
    /\ nlri_buf' = loop_buf
    /\ nets' = <<>>
    /\ pc' = "nlri_from_wire"
    /\ UNCHANGED <<input, pdu, asn4, prefix_decoder, buf, parsed, withdrawn_buf,
                   path_attributes_buf, loop_buf, ret, withdrawn_routes, path_attributes,
                   inner, result, outer>>

\* the loop body without `buf = t`
NlriRecord_no_advance ==
    /\ pdu = "BGPUpdateMessage" /\ pc = "nlri_from_wire"
    /\ ~is_empty(nlri_buf)
    /\ Len(nets) <= Len(input)
    /\ LET r == parse_nlri_ipv4(nlri_buf) IN
       IF r.kind = "Ok"
       THEN /\ nets' = Append(nets, r.value)
            /\ UNCHANGED <<pc, result, ret, inner, nlri_buf>>
       ELSE /\ inner' = r
            /\ nets' = <<>>
            /\ LoopFails(parse_into_located_nlri(r))
            /\ UNCHANGED nlri_buf
    /\ UNCHANGED <<input, pdu, asn4, prefix_decoder, buf, parsed, withdrawn_buf,
                   path_attributes_buf, loop_buf, withdrawn_routes, path_attributes, outer>>

\* while !buf.is_empty() { let (t, net) = parse_nlri_ipv4(buf)?; nets.push(net); buf = t; }
NlriRecord ==
    /\ pdu = "BGPUpdateMessage" /\ pc = "nlri_from_wire"
    /\ ~is_empty(nlri_buf)
    /\ Len(nets) <= Len(input)
    /\ LET r == parse_nlri_ipv4(nlri_buf) IN
       IF r.kind = "Ok"
       THEN /\ nets' = Append(nets, r.value)
            /\ nlri_buf' = r.rest
            /\ UNCHANGED <<pc, result, ret, inner>>
       ELSE /\ inner' = r
            /\ nets' = <<>>
            /\ LoopFails(parse_into_located_nlri(r))
            /\ UNCHANGED nlri_buf
    /\ UNCHANGED <<input, pdu, asn4, prefix_decoder, buf, parsed, withdrawn_buf,
                   path_attributes_buf, loop_buf, withdrawn_routes, path_attributes, outer>>

\* Ok((buf, NetworkLayerReachabilityInformation::new(nets))), pushed by the caller
NlriReturn ==
    /\ pdu = "BGPUpdateMessage" /\ pc = "nlri_from_wire"
    /\ is_empty(nlri_buf)
    /\ inner' = Ok(nlri_buf, [nets |-> nets])
    /\ ret' = Append(ret, [nets |-> nets])
    /\ loop_buf' = nlri_buf
    /\ nets' = <<>>
    /\ pc' = "nlri"
    /\ UNCHANGED <<input, pdu, asn4, prefix_decoder, buf, parsed, withdrawn_buf,
                   path_attributes_buf, nlri_buf, withdrawn_routes, path_attributes,
                   result, outer>>

\* the cursor of the reachability loop dropped: let (_, nlri_vec) = ...
UpdateOk_keeps_cursor ==
    /\ pdu = "BGPUpdateMessage" /\ pc = "nlri"
    /\ is_empty(loop_buf)
    /\ result' = Ok(buf, BGPUpdateMessage_new(withdrawn_routes, path_attributes, ret))
    /\ ret' = <<>>
    /\ pc' = "done"
    /\ UNCHANGED <<input, pdu, asn4, prefix_decoder, buf, parsed, withdrawn_buf,
                   path_attributes_buf, loop_buf, nlri_buf, nets, withdrawn_routes,
                   path_attributes, inner, outer>>

\* Ok((buf, BGPUpdateMessage::new(withdrawn_routes, path_attributes, nlri_vec)))
UpdateOk ==
    /\ pdu = "BGPUpdateMessage" /\ pc = "nlri"
    /\ is_empty(loop_buf)
    /\ buf' = loop_buf
    /\ result' = Ok(loop_buf, BGPUpdateMessage_new(withdrawn_routes, path_attributes, ret))
    /\ ret' = <<>>
    /\ pc' = "done"
    /\ UNCHANGED <<input, pdu, asn4, prefix_decoder, parsed, withdrawn_buf,
                   path_attributes_buf, loop_buf, nlri_buf, nets, withdrawn_routes,
                   path_attributes, inner, outer>>

\* The BGP message decoder receives the update or its error
UpdateReturn ==
    /\ pdu = "BGPUpdateMessage" /\ pc = "done"
    /\ outer' = IF result.kind = "Error" THEN BGPUpdateMessage_into_located(result)
                ELSE result
    /\ pc' = "returned"
    /\ UNCHANGED <<input, pdu, asn4, prefix_decoder, buf, parsed, withdrawn_buf,
                   path_attributes_buf, loop_buf, ret, nlri_buf, nets, withdrawn_routes,
                   path_attributes, inner, result>>

----------------------------------------------------------------------------

CapabilityInputs ==
    { <<c>> : c \in Byte } \cup
    { <<c, l>> \o p : c \in Byte, l \in LengthBytes, p \in SeqsUpTo(PayloadBytes, MaxPayload) }

InitCommon ==
    /\ pc = "from_wire"
    /\ buf = Span(0, Len(input))
    /\ parsed = None
    /\ withdrawn_buf = Span(0, 0)
    /\ path_attributes_buf = Span(0, 0)
    /\ loop_buf = Span(0, 0)
    /\ ret = <<>>
    /\ nlri_buf = Span(0, 0)
    /\ nets = <<>>
    /\ withdrawn_routes = <<>>
    /\ path_attributes = <<>>
    /\ inner = None
    /\ result = None
    /\ outer = None

InitCapability ==
    /\ pdu = "BGPCapability"
    /\ input \in {<<>>} \cup CapabilityInputs
    /\ asn4 = FALSE
    /\ InitCommon

InitUpdate ==
    /\ pdu = "BGPUpdateMessage"
    /\ input \in SeqsUpTo(UpdateBytes, MaxLen)
    /\ asn4 \in BOOLEAN
    /\ InitCommon

Init ==
    /\ prefix_decoder = "ipv4_network_from_wire"
    /\ (InitCapability \/ InitUpdate)

NextCapability ==
    \/ CapabilityCode
    \/ RouteRefreshArm
    \/ EnhancedRouteRefreshArm
    \/ BGPExtendedMessageArm
    \/ FourOctetASArm
    \/ ExperimentalArm
    \/ UnrecognizedArm
    \/ UndefinedCapabilityCodeArm
    \/ ErrArm
    \/ CapabilityReturn

NextUpdate ==
    \/ LengthWithdrawn
    \/ WithdrawRoutesRecord
    \/ WithdrawRoutesEnd
    \/ LengthPathAttributes
    \/ PathAttributes
    \/ NlriFromWire
    \/ NlriRecord
    \/ NlriReturn
    \/ UpdateOk
    \/ UpdateReturn

Next == NextCapability \/ NextUpdate

Spec == Init /\ [][Next]_vars

\* The decoders with a record decoder that may report zero consumed bytes
InitZeroConsumption ==
    \/ /\ prefix_decoder = "ipv4_network_from_wire"
       /\ InitCapability
    \/ /\ prefix_decoder \in {"ipv4_network_from_wire", "zero_consumption_decoder"}
       /\ InitUpdate

SpecZeroConsumption == InitZeroConsumption /\ [][Next]_vars

\* from_wire runs to its return: nothing suspends it
FairSpec == Spec /\ WF_vars(Next)

----------------------------------------------------------------------------
(* Properties of the capability decoder *)

Returned == pc \in {"done", "returned"}
Capability == pdu = "BGPCapability"
Update == pdu = "BGPUpdateMessage"

\* the record [code][length L][L bytes] is whole in the input
WholeRecord == Len(input) >= 2 /\ Len(input) >= 2 + input[2]
Payload == SubSeq(input, 3, 2 + input[2])

\* code byte, variant and error of the kinds whose length must be zero
FixedZeroLengthKinds ==
    { <<2, "RouteRefresh", "InvalidRouteRefreshLength">>,
      <<70, "EnhancedRouteRefresh", "InvalidEnhancedRouteRefreshLength">>,
      <<6, "ExtendedMessage", "InvalidExtendedMessageLength">> }

\* C1: for RouteRefresh, EnhancedRouteRefresh and ExtendedMessage, a length
\* byte of 0 decodes to the payload-free variant, and a length byte v # 0
\* fails with the kind's own invalid-length error carrying v: no capability
\* is returned.
C1_FixedZeroLength ==
    \A k \in FixedZeroLengthKinds :
        (Capability /\ Returned /\ Len(input) >= 2 /\ input[1] = k[1]) =>
            IF input[2] = 0
            THEN result.kind = "Ok" /\ result.value.variant = k[2]
            ELSE /\ result.kind = "Error"
                 /\ result.error = ErrorValue(<<k[3]>>, <<input[2]>>)

C1_Witness ==
    /\ Capability /\ pc = "done" /\ Len(input) >= 2
    /\ input[1] = 6 /\ input[2] = 3
    /\ result.kind = "Error"

SurfacesUndefinedCode(r) ==
    r.kind = "Error" /\ \E i \in DOMAIN r.error.tags :
                            r.error.tags[i] = "UndefinedCapabilityCode"

\* C2: an unmapped code byte followed by a length-prefixed value decodes to
\* Unrecognized with that code and that value, and no result of the decoder
\* carries UndefinedCapabilityCode.
C2_UnmappedIsUnrecognized ==
    /\ (Capability /\ Returned) => ~SurfacesUndefinedCode(result)
    /\ (Capability /\ pc = "returned") => ~SurfacesUndefinedCode(outer)
    /\ (Capability /\ Returned /\ WholeRecord /\ ~IsDefinedCode(input[1])) =>
            /\ result.kind = "Ok"
            /\ result.value.variant = "Unrecognized"
            /\ result.value.code = input[1]
            /\ result.value.value = Payload

C2_Witness ==
    /\ Capability /\ pc = "done" /\ WholeRecord
    /\ input[1] = 200 /\ input[2] = 3
    /\ result.kind = "Ok" /\ result.value.variant = "Unrecognized"

\* C3: FourOctetAS with length 4 and four payload bytes decodes to their
\* big-endian value; with a length v # 4 the sub-decoder fails with
\* InvalidLength(v), which the capability decoder returns as
\* FourOctetASCapabilityError(InvalidLength(v)).
C3_FourOctetAS ==
    (Capability /\ Returned /\ Len(input) >= 2 /\ input[1] = 65) =>
        /\ (input[2] = 4 /\ Len(input) >= 6) =>
              /\ result.kind = "Ok"
              /\ result.value.variant = "FourOctetAS"
              /\ result.value.asn4 = input[3] * 16777216 + input[4] * 65536
                                     + input[5] * 256 + input[6]
        /\ input[2] # 4 =>
              /\ inner.kind = "Error"
              /\ inner.error = ErrorValue(<<"InvalidLength">>, <<input[2]>>)
              /\ result.kind = "Error"
              /\ result.error = ErrorValue(<<"FourOctetASCapabilityError", "InvalidLength">>,
                                           <<input[2]>>)

C3_Witness ==
    /\ Capability /\ pc = "done"
    /\ input = <<65, 4, 0, 0, 0, 66>>
    /\ result.kind = "Ok" /\ result.value.asn4 = 66

\* the place of an ExperimentalCapabilityCode in the reserved range
ExperimentalSubCode(code) == ExperimentalCapabilityCode_into(code) - 239

\* C4: a code byte b in 239..254 decodes to Experimental with sub-code
\* b - 239 and the length-prefixed payload; 238 and 255 decode to
\* Unrecognized with code b, and never to Experimental.
C4_ExperimentalRange ==
    (Capability /\ Returned /\ Len(input) >= 1) =>
        /\ (input[1] \in 239..254 /\ WholeRecord) =>
              /\ result.kind = "Ok"
              /\ result.value.variant = "Experimental"
              /\ ExperimentalSubCode(result.value.code) = input[1] - 239
              /\ result.value.value = Payload
        /\ input[1] \in {238, 255} =>
              /\ result.kind = "Ok" => result.value.variant # "Experimental"
              /\ WholeRecord =>
                    /\ result.kind = "Ok"
                    /\ result.value.variant = "Unrecognized"
                    /\ result.value.code = input[1]

C4_Witness ==
    /\ Capability /\ pc = "done" /\ WholeRecord
    /\ input[1] = 254 /\ input[2] = 3
    /\ result.kind = "Ok" /\ ExperimentalSubCode(result.value.code) = 15

----------------------------------------------------------------------------
(* Properties of the update decoder *)

\* the two length fields of the body [W][W bytes][P][P bytes][rest]
W == input[1] * 256 + input[2]
P == input[2 + W + 1] * 256 + input[2 + W + 2]
WellFormedLengths ==
    /\ Len(input) >= 2 /\ Len(input) >= 4 + W
    /\ Len(input) >= 4 + W + P

PastWithdrawnLength ==
    pc \in {"withdraw_routes", "length_path_attributes", "path_attributes", "nlri",
            "nlri_from_wire"}
PastPathAttributesLength == pc \in {"path_attributes", "nlri", "nlri_from_wire"}

\* the prefix entries a byte string holds, in wire order
RECURSIVE DecodePrefixes(_)
DecodePrefixes(bytes) ==
    IF bytes = <<>> THEN <<>>
    ELSE LET n == (bytes[1] + 7) \div 8 IN
         <<[addr |-> SubSeq(bytes, 2, 1 + n), prefix_len |-> bytes[1]]>>
         \o DecodePrefixes(SubSeq(bytes, 2 + n, Len(bytes)))

Prefixes(nlri) == IF nlri = <<>> THEN <<>> ELSE nlri[1].nets

\* C5: the withdrawn routes are decoded from exactly the W bytes after the
\* first length field, the path attributes from exactly the P bytes after
\* the second, the prefixes from all that is left, each in wire order; an
\* empty section gives an empty sequence and no error, so W = 0, P = 0 and
\* nothing left give three empty sequences.
C5_ThreeSections ==
    Update =>
        /\ PastWithdrawnLength => withdrawn_buf = Span(2, 2 + W)
        /\ PastPathAttributesLength =>
              /\ path_attributes_buf = Span(4 + W, 4 + W + P)
              /\ buf = Span(4 + W + P, Len(input))
        /\ (Returned /\ result.kind = "Ok") =>
              /\ WellFormedLengths
              /\ LET d == DecodePrefixes(SubSeq(input, 3, 2 + W)) IN
                 result.value.withdrawn_routes = [i \in 1..Len(d) |-> [net |-> d[i]]]
              /\ result.value.path_attributes =
                    IF P = 0 THEN <<>>
                    ELSE <<[attribute |-> SubSeq(input, 5 + W, 4 + W + P), asn4 |-> asn4]>>
              /\ Len(result.value.nlri) <= 1
              /\ Prefixes(result.value.nlri) =
                    DecodePrefixes(SubSeq(input, 5 + W + P, Len(input)))
        /\ (Returned /\ result.kind = "Error" /\ Len(input) >= 2 /\ W = 0) =>
              result.error.tags[1] # "WithdrawRouteError"
        /\ (Returned /\ result.kind = "Error" /\ WellFormedLengths
                     /\ Len(input) = 4 + W + P) =>
              result.error.tags[1] # "NetworkLayerReachabilityInformationError"
        /\ (Returned /\ input = <<0, 0, 0, 0>>) =>
              /\ result.kind = "Ok"
              /\ result.value = BGPUpdateMessage_new(<<>>, <<>>, <<>>)

C5_Witness ==
    /\ Update /\ pc = "done" /\ result.kind = "Ok"
    /\ WellFormedLengths /\ W = 1 /\ P = 1
    /\ Len(result.value.withdrawn_routes) = 1
    /\ Len(result.value.path_attributes) = 1
    /\ Len(Prefixes(result.value.nlri)) = 1

\* C6: a withdrawn length W larger than the bytes after the length field
\* ends the decode with the insufficient-bytes signal (nom's Incomplete, not
\* an Error of any scope) and no UpdateMessage.
C6_InsufficientBytes ==
    (Update /\ Returned /\ Len(input) >= 2 /\ W > Len(input) - 2) =>
        /\ result.kind = "Incomplete"
        /\ result.needed = W - (Len(input) - 2)
        /\ pc = "returned" => outer.kind = "Incomplete"

C6_Witness ==
    /\ Update /\ pc = "returned"
    /\ input = <<0, 2, 0>>
    /\ result.kind = "Incomplete" /\ result.needed = 1

OneTag(inn, tag, out) ==
    /\ out.kind = "Error"
    /\ out.span = inn.span
    /\ out.error.tags = <<tag>> \o inn.error.tags
    /\ out.error.args = inn.error.args

\* the arm of the enclosing scope the inner scope's error belongs in
InnerTag ==
    IF Capability THEN "FourOctetASCapabilityError"
    ELSE IF inner.span.off <= withdrawn_buf.end THEN "WithdrawRouteError"
    ELSE "NetworkLayerReachabilityInformationError"

OuterTag == IF Capability THEN "CapabilityError" ELSE "BGPUpdateMessageParsingError"

\* C8: an error crossing into the enclosing scope gains exactly one tag, its
\* inner value is unchanged, and its span is the one first recorded: the
\* absolute offset of the offending byte in the original buffer.
C8_OneTagPerLayer ==
    /\ (Returned /\ inner.kind = "Error") =>
          /\ OneTag(inner, InnerTag, result)
          /\ inner.error.args # <<>> => input[result.span.off + 1] = inner.error.args[1]
    /\ (pc = "returned" /\ result.kind = "Error") =>
          /\ OneTag(result, OuterTag, outer)
          /\ result.error.args # <<>> => input[outer.span.off + 1] = result.error.args[1]

C8_Witness ==
    /\ Update /\ pc = "returned"
    /\ inner.kind = "Error"
    /\ outer.kind = "Error"
    /\ outer.error.tags = <<"BGPUpdateMessageParsingError", "WithdrawRouteError",
                            "Ipv4PrefixParsingError", "InvalidIpv4PrefixLen">>
    /\ outer.span.off = 3

RECURSIVE WireSize(_)
WireSize(prefixes) ==
    IF prefixes = <<>> THEN 0
    ELSE 1 + Len(Head(prefixes).addr) + WireSize(Tail(prefixes))

\* C9: the update decoder returns a whole value or an error, never both: a
\* failed record fails the decode, the records decoded before it are
\* dropped, and a value that is returned covers every byte of its sections.
C9_NoPartialResult ==
    (Update /\ Returned) =>
        /\ result.kind \in {"Ok", "Error", "Incomplete"}
        /\ result.kind = "Ok" <=> "value" \in DOMAIN result
        /\ result.kind = "Error" <=> "error" \in DOMAIN result
        /\ inner.kind \in {"Error", "Incomplete"} => result.kind = inner.kind
        /\ result.kind # "Ok" => ret = <<>> /\ nets = <<>>
        /\ result.kind = "Ok" =>
              /\ WireSize([i \in DOMAIN result.value.withdrawn_routes |->
                              result.value.withdrawn_routes[i].net]) = W
              /\ WireSize(Prefixes(result.value.nlri)) = Len(input) - (4 + W + P)

C9_Witness ==
    /\ Update /\ pc = "done"
    /\ Len(input) >= 4 /\ SubSeq(input, 1, 4) = <<0, 2, 0, 33>>
    /\ inner.kind = "Error" /\ inner.span.off = 3
    /\ result.kind = "Error" /\ ret = <<>>

\* a pass of a section loop leaves strictly fewer bytes to decode
LoopShrinks ==
    /\ (pc = "withdraw_routes" /\ pc' = "withdraw_routes") =>
          input_len(loop_buf') < input_len(loop_buf)
    /\ (pc = "nlri_from_wire" /\ pc' = "nlri_from_wire") =>
          input_len(nlri_buf') < input_len(nlri_buf)
    /\ (pc = "nlri_from_wire" /\ pc' = "nlri") =>
          input_len(loop_buf') < input_len(loop_buf)

\* the work in the withdrawn routes section stays within its declared size
SectionBounded ==
    (Update /\ pc = "withdraw_routes") =>
        /\ withdrawn_buf.off <= loop_buf.off
        /\ loop_buf.off <= loop_buf.end
        /\ loop_buf.end = withdrawn_buf.end
        /\ Len(ret) <= input_len(withdrawn_buf)

\* C10: every call of either decoder returns; each pass of a section loop
\* leaves strictly fewer bytes, and the withdrawn routes loop never leaves
\* the section its length field declares.
C10_Terminates ==
    /\ [][LoopShrinks]_vars
    /\ []SectionBounded
    /\ <>(pc = "returned")

C10_Witness ==
    /\ Update /\ pc = "returned" /\ result.kind = "Ok"
    /\ Len(result.value.withdrawn_routes) = 1
    /\ Len(Prefixes(result.value.nlri)) = 2

SectionArms ==
    {"WithdrawRouteError", "PathAttributeError",
     "NetworkLayerReachabilityInformationError"}

\* the offsets of the 2-byte length field of the section an arm is named after
OwnLengthField(arm) ==
    IF arm = "WithdrawRouteError" THEN {0, 1}
    ELSE IF arm = "PathAttributeError" THEN {2 + W, 2 + W + 1}
    ELSE {}

\* C11 as stated: every failure of the update decoder is an error in the arm
\* named after its step, located away from the section's length field.
C11_EveryFailureInSectionArm ==
    (Update /\ Returned /\ result.kind # "Ok") =>
        /\ result.kind = "Error"
        /\ result.error.tags[1] \in SectionArms
        /\ result.span.off \notin OwnLengthField(result.error.tags[1])

\* a step of the update decoder that ends the decode with a failure
FailsIn(step) == Update /\ pc = step /\ pc' = "done" /\ result'.kind # "Ok"

FailureArms ==
    /\ FailsIn("withdraw_routes") =>
          /\ result'.kind = "Error"
          /\ result'.error.tags[1] = "WithdrawRouteError"
          /\ result'.span.off - loop_buf.off \in {0, 1}
          /\ result'.span.off \in 2 .. (2 + W)
    /\ FailsIn("path_attributes") =>
          /\ result'.kind = "Error"
          /\ result'.error.tags[1] = "PathAttributeError"
          /\ result'.span.off \in (4 + W) .. (4 + W + P - 1)
    /\ FailsIn("nlri_from_wire") =>
          /\ result'.kind = "Error"
          /\ result'.error.tags[1] = "NetworkLayerReachabilityInformationError"
          /\ result'.span.off - nlri_buf.off \in {0, 1}
          /\ result'.span.off \in (4 + W + P) .. Len(input)
    /\ (FailsIn("from_wire") \/ FailsIn("length_path_attributes")) =>
          \/ /\ result'.kind = "Incomplete"
             /\ result'.needed > 0
          \/ /\ result'.kind = "Error"
             /\ result'.error = ErrorValue(<<"NomError", "Eof">>, <<>>)
             /\ result'.span = buf
             /\ input_len(buf) < 2
    /\ FailsIn("nlri") => FALSE

\* C11, amended: a record that fails in the withdrawn routes, the path
\* attributes or the reachability section is reported in the arm of that
\* section, at the offset in the original buffer where its decode stopped,
\* which is never in that section's length field; a length field that
\* cannot be read is reported as NomError(Eof) at the offset of that field,
\* and a declared length larger than what is left as Incomplete, which
\* carries no offset.
C11_FailureArms == [][FailureArms]_vars

C11_Witness ==
    /\ Update /\ pc = "done"
    /\ WellFormedLengths /\ W = 1 /\ P = 1
    /\ withdrawn_routes # <<>> /\ path_attributes # <<>>
    /\ result.kind = "Error"
    /\ result.error.tags[1] = "NetworkLayerReachabilityInformationError"
    /\ result.span.off = 6

----------------------------------------------------------------------------
(* Consumption *)

\* the code bytes of the identities the capability decoder does not interpret
GenericCodeBytes == {1, 3, 5, 7, 8, 9, 64, 67, 68, 69, 71, 72, 73}

\* C12: a mapped identity other than RouteRefresh, EnhancedRouteRefresh,
\* BGPExtendedMessage, FourOctetAS and the Experimental range decodes to
\* Unrecognized with the code byte read from the wire and the
\* length-prefixed payload, whatever the length and the content.
C12_GenericIdentities ==
    (Capability /\ Returned /\ WholeRecord /\ input[1] \in GenericCodeBytes) =>
        /\ IsDefinedCode(input[1])
        /\ result.kind = "Ok"
        /\ result.value = [variant |-> "Unrecognized", code |-> input[1],
                           value |-> Payload]

C12_Witness ==
    /\ Capability /\ pc = "done" /\ WholeRecord
    /\ input[1] = 1 /\ input[2] = 3
    /\ result.kind = "Ok" /\ result.value.code = 1
    /\ Len(result.value.value) = 3

\* C13: a successful capability decode leaves the input cursor advanced by
\* exactly 2 + L bytes, L the value of the length byte: the code byte, also
\* when the fallback reads it again, the length byte, and L payload bytes.
C13_ConsumesRecord ==
    (Capability /\ Returned /\ result.kind = "Ok") =>
        /\ Len(input) >= 2
        /\ result.rest = advance(Span(0, Len(input)), 2 + input[2])
        /\ result.rest.off <= result.rest.end

C13_Witness ==
    /\ Capability /\ pc = "done"
    /\ Len(input) = 6 /\ input[1] = 200 /\ input[2] = 3
    /\ result.kind = "Ok" /\ result.rest = Span(5, 6)

\* C14: a successful update decode returns an empty cursor at the end of
\* the input: 4 + W + P bytes went to the two length-prefixed sections and
\* every byte after them to the reachability section.
C14_NothingLeft ==
    (Update /\ Returned /\ result.kind = "Ok") =>
        /\ is_empty(result.rest)
        /\ result.rest = Span(Len(input), Len(input))
        /\ input_len(withdrawn_buf) + input_len(path_attributes_buf) + 4 = 4 + W + P
        /\ WireSize(Prefixes(result.value.nlri)) = Len(input) - (4 + W + P)

C14_Witness ==
    /\ Update /\ pc = "done" /\ result.kind = "Ok"
    /\ Len(input) = 7 /\ W = 0 /\ P = 0
    /\ Len(Prefixes(result.value.nlri)) >= 2
    /\ is_empty(result.rest)

====
